---- MODULE Spec2Model ----
(***************************************************************************)
(* convert_setget_to_hardlines of hardline.py as a state machine.          *)
(*                                                                         *)
(* A workflow is a dict; a dict is modelled as a record together with the  *)
(* set `keys' of the keys that are present.  A value that may be None is a *)
(* sequence of length 0 (None) or 1 (the value).  A link is the 6-element  *)
(* list [id, from_node, from_slot, to_node, to_slot, type] as a tuple, so  *)
(* Python's link[1] is link[2] here.  Objects that the function reaches    *)
(* through a second reference (nodes_by_id, link_map) are modelled as the  *)
(* index of the object in wf['nodes'] / wf['links'].                       *)
(***************************************************************************)
EXTENDS Integers, Sequences, FiniteSets, TLC

\* ------------------------------------------------------------- bounds
NumSets == 2
NumGets == 2

\* ------------------------------------------------------ Python values
None == <<>>
Some(v) == <<v>>

Names == {"X", "Y"}

RECURSIVE SeqOfFn(_, _, _)
\* <<f[lo], ..., f[hi]>>
SeqOfFn(f, lo, hi) == IF lo > hi THEN <<>> ELSE <<f[lo]>> \o SeqOfFn(f, lo + 1, hi)

RECURSIVE Concat(_)
Concat(ss) == IF ss = <<>> THEN <<>> ELSE Head(ss) \o Concat(Tail(ss))

Range(s) == {s[k] : k \in DOMAIN s}

\* ------------------------------------------------ the input workflows
SetId(s) == s
GetId(g) == 10 + g
CaptureLinkId(s) == 100 + s
GetLinkId(g, k) == 200 + 10 * g + k

\* node 50: an ordinary node with two output ports; node 60: the consumer
SrcPorts == {<<50, 0, "IMAGE">>, <<50, 1, "LATENT">>}
\* a SetNode may also capture what the first output port of a GetNode gives
GetPorts == {<<GetId(g), 0, "*">> : g \in 1..NumGets}
Sources == SrcPorts \cup GetPorts

\* How one SetNode is configured.  kind "bound": a name and a capture link
\* from src.  The other kinds are the shapes the first pass skips.
SetConfigs ==
    {[kind |-> "bound", name |-> nm, src |-> s] : nm \in Names, s \in Sources}
    \cup {[kind |-> k, name |-> "X", src |-> <<50, 0, "IMAGE">>] :
            k \in {"noname", "noinputs", "nolink", "dangling"}}

\* kinds whose capture link is a link of the link table
HasCapture(c) == c.kind \in {"bound", "noname"}

Configs == [sets : [1..NumSets -> SetConfigs], gets : [1..NumGets -> Names]]

CaptureLink(c, s) ==
    <<CaptureLinkId(s), c.sets[s].src[1], c.sets[s].src[2], SetId(s), 0, c.sets[s].src[3]>>

\* the capture links that leave output port <<node, slot>>
CapturesFrom(c, node, slot) ==
    SelectSeq(SeqOfFn([s \in 1..NumSets |-> CaptureLinkId(s)], 1, NumSets),
              LAMBDA l : LET s == l - 100 IN
                  /\ HasCapture(c.sets[s])
                  /\ c.sets[s].src[1] = node /\ c.sets[s].src[2] = slot)

NodeKeys == {"id", "type", "widgets_values", "inputs", "outputs"}

Port(ids) == [links |-> IF ids = <<>> THEN None ELSE Some(ids)]

SrcNode(c) ==
    [keys |-> {"id", "type", "outputs"}, id |-> 50, type |-> "KSampler",
     widgets_values |-> <<>>, inputs |-> <<>>,
     outputs |-> <<Port(CapturesFrom(c, 50, 0)), Port(CapturesFrom(c, 50, 1))>>]

TgtNode ==
    [keys |-> {"id", "type", "inputs", "outputs"}, id |-> 60, type |-> "SaveImage",
     widgets_values |-> <<>>,
     inputs |-> <<[link |-> None]>>, outputs |-> <<>>]

SetNodeOf(c, s) ==
    LET k == c.sets[s].kind IN
    [keys |-> (NodeKeys \ (IF k = "noname" THEN {"widgets_values"} ELSE {}))
                       \ (IF k = "noinputs" THEN {"inputs"} ELSE {}),
     id |-> SetId(s), type |-> "SetNode",
     widgets_values |-> IF k = "noname" THEN <<>> ELSE <<c.sets[s].name>>,
     inputs |-> IF k = "noinputs" THEN <<>>
                ELSE <<[link |-> CASE k = "nolink" -> None
                                   [] k = "dangling" -> Some(999)
                                   [] OTHER -> Some(CaptureLinkId(s))]>>,
     outputs |-> <<>>]

\* a GetNode has two output ports; port 0 feeds one consumer link and the
\* SetNodes that capture from it, port 1 feeds one consumer link
GetNodeOf(c, g) ==
    [keys |-> NodeKeys, id |-> GetId(g), type |-> "GetNode",
     widgets_values |-> <<c.gets[g]>>, inputs |-> <<>>,
     outputs |-> <<Port(<<GetLinkId(g, 0)>> \o CapturesFrom(c, GetId(g), 0)),
                   Port(<<GetLinkId(g, 1)>>)>>]

GetLinks(g) ==
    <<<<GetLinkId(g, 0), GetId(g), 0, 60, 0, "*">>,
      <<GetLinkId(g, 1), GetId(g), 1, 60, 1, "*">>>>

NoExtra == [keys |-> {}, report |-> None]

Workflow(c) ==
    [keys |-> {"nodes", "links"},
     nodes |-> <<SrcNode(c)>>
               \o SeqOfFn([s \in 1..NumSets |-> SetNodeOf(c, s)], 1, NumSets)
               \o SeqOfFn([g \in 1..NumGets |-> GetNodeOf(c, g)], 1, NumGets)
               \o <<TgtNode>>,
     links |-> SelectSeq(SeqOfFn([s \in 1..NumSets |-> CaptureLink(c, s)], 1, NumSets),
                         LAMBDA l : HasCapture(c.sets[l[1] - 100]))
               \o Concat(SeqOfFn([g \in 1..NumGets |-> GetLinks(g)], 1, NumGets)),
     extra |-> NoExtra]

\* ------------------------------------------------- malformed inputs
\* the example of the documentation: SetNode 1 binds X to 50/0, every
\* GetNode reads X
Example ==
    [sets |-> [s \in 1..NumSets |->
                 IF s = 1 THEN [kind |-> "bound", name |-> "X", src |-> <<50, 0, "IMAGE">>]
                 ELSE [kind |-> "nolink", name |-> "X", src |-> <<50, 0, "IMAGE">>]],
     gets |-> [g \in 1..NumGets |-> "X"]]

LastNode(w) == Len(w.nodes)
FirstGet(w) == 1 + NumSets + 1
LastLink(w) == Len(w.links)

Malformed(w) ==
    { [w EXCEPT !.keys = {"links"}],
      [w EXCEPT !.keys = {"nodes"}],
      \* with an extra area that holds other data and an earlier report
      [w EXCEPT !.keys = {"nodes", "links", "extra"},
                !.extra = [keys |-> {"ds", "__hardline_rewire"},
                           report |-> Some([rewired_count |-> 7,
                                            skipped_gets |-> <<>>,
                                            conflicts |-> <<>>])]],
      \* the consumer node has no id
      [w EXCEPT !.nodes[LastNode(w)].keys = @ \ {"id"}],
      \* the consumer node has no type, the first GetNode no outputs
      [w EXCEPT !.nodes[LastNode(w)].keys = @ \ {"type"},
                !.nodes[FirstGet(w)].keys = @ \ {"outputs"}],
      \* the first GetNode has no widgets_values
      [w EXCEPT !.nodes[FirstGet(w)].keys = @ \ {"widgets_values"},
                !.nodes[FirstGet(w)].widgets_values = <<>>],
      \* the capture link of SetNode 1 has lost its last field
      [w EXCEPT !.links[1] = SubSeq(@, 1, 5)],
      \* the last consumer link has lost its last three fields
      [w EXCEPT !.links[LastLink(w)] = SubSeq(@, 1, 3)],
      \* the captured slot is out of range; the captured node does not exist
      [w EXCEPT !.links[1][3] = 7],
      [w EXCEPT !.links[1][2] = 77] }

\* SetNode 1 binds X, the other SetNodes bind Y, and only the last GetNode
\* reads X
Mixed(yFrom) ==
    [sets |-> [s \in 1..NumSets |->
                 IF s = 1 THEN [kind |-> "bound", name |-> "X", src |-> <<50, 0, "IMAGE">>]
                 ELSE [kind |-> yFrom, name |-> "Y", src |-> <<50, 1, "LATENT">>]],
     gets |-> [g \in 1..NumGets |-> IF g = NumGets THEN "X" ELSE "Y"]]

\* workflows whose port lists do not agree with the link table: the last
\* GetNode also lists the first consumer link of the first GetNode, which is
\* unresolved (yFrom = "nolink") or resolved to another source ("bound"); and a
\* port that lists one link id twice
Irregular ==
    {[Workflow(Mixed(y)) EXCEPT
         !.nodes[1 + NumSets + NumGets].outputs[2].links = Some(Append(@[1], GetLinkId(1, 0)))] :
       y \in {"nolink", "bound"}}
    \cup {[Workflow(Example) EXCEPT
              !.nodes[1 + NumSets + 1].outputs[1].links = Some(Append(@[1], GetLinkId(1, 0)))]}

Inputs == {Workflow(c) : c \in Configs} \cup Malformed(Workflow(Example)) \cup Irregular

\* ------------------------------------------------------------- state
VARIABLES
    arg,            \* the workflow value the caller passed (never assigned again)
    drop_setget,    \* the drop_setget argument
    heap,           \* the workflow objects: the caller's, and the copy
    wf,             \* which object the local wf refers to
    nodes_by_id,    \* node id -> index in wf['nodes'] of the node object
    link_map,       \* link id -> index in wf['links'] of the link object
    name_to_source, \* variable name -> <<src_node, src_slot, ltype>>
    conflicts,
    rewired,
    skipped_gets,
    cursor,         \* the index in wf['nodes'] of the node the running loop is at
    exc,            \* the exception that ended the call, "" when none
    pc

vars == <<arg, drop_setget, heap, wf, nodes_by_id, link_map, name_to_source,
          conflicts, rewired, skipped_gets, cursor, exc, pc>>

EmptyDict == [k \in {} |-> 0]
Put(d, k, v) == [x \in DOMAIN d \cup {k} |-> IF x = k THEN v ELSE d[x]]

NoWorkflow == [keys |-> {}, nodes |-> <<>>, links |-> <<>>, extra |-> NoExtra]

\* ------------------------------------------------- dict accessors
\* n.get('type')
TypeOf(n) == IF "type" \in n.keys THEN n.type ELSE ""
\* n.get('outputs', [])
OutputsOf(n) == IF "outputs" \in n.keys THEN n.outputs ELSE <<>>
\* n.get('inputs'), None read as the empty list
InputsOf(n) == IF "inputs" \in n.keys THEN n.inputs ELSE <<>>
\* (n.get('widgets_values') or [None])[0]
NameOf(n) ==
    LET wv == IF "widgets_values" \in n.keys THEN n.widgets_values ELSE <<>>
    IN  IF wv = <<>> THEN None ELSE Some(wv[1])
\* not name
Falsy(name) == name = None \/ name = Some("")
\* list(out.get('links') or [])
LinkIds(out) == IF out.links = None THEN <<>> ELSE out.links[1]

\* the index of the last element of s that satisfies Test, 0 when none
LastIndex(s, Test(_)) ==
    LET hits == {k \in DOMAIN s : Test(s[k])}
    IN  IF hits = {} THEN 0 ELSE CHOOSE k \in hits : \A j \in hits : j <= k

\* {n['id']: n for n in wf['nodes']}: a later node of the same id replaces an
\* earlier one
NodesById(nodes) ==
    [id \in {nodes[k].id : k \in DOMAIN nodes} |->
        LastIndex(nodes, LAMBDA n : n.id = id)]

\* {l[0]: l for l in wf['links']}
LinkMap(links) ==
    [id \in {links[k][1] : k \in DOMAIN links} |->
        LastIndex(links, LAMBDA l : l[1] = id)]

\* wf = workflow: a second reference to the caller's object, no copy
deepcopy_alias(h, ref) == [heap |-> h, ref |-> ref]

\* deepcopy(workflow): a new object, equal to the old one
deepcopy(h, ref) == [heap |-> [h EXCEPT !["copy"] = h[ref]], ref |-> "copy"]

\* --------------------------------------- add / remove on output ports
add_output_link(nodes, nbi, node_id, slot_index, link_id) ==
    IF node_id \notin DOMAIN nbi THEN nodes
    ELSE LET k == nbi[node_id]
             outs == OutputsOf(nodes[k])
         IN  IF ~(0 <= slot_index /\ slot_index < Len(outs)) THEN nodes
             ELSE LET ids == LinkIds(outs[slot_index + 1])
                  IN  [nodes EXCEPT ![k].outputs[slot_index + 1].links =
                          IF link_id \in Range(ids) THEN Some(ids)
                          ELSE Some(Append(ids, link_id))]

\* list.remove: the first occurrence
RemoveFirst(ids, x) ==
    LET at == CHOOSE k \in DOMAIN ids : ids[k] = x /\ \A j \in 1..(k - 1) : ids[j] # x
    IN  SubSeq(ids, 1, at - 1) \o SubSeq(ids, at + 1, Len(ids))

remove_output_link(nodes, nbi, node_id, slot_index, link_id) ==
    IF node_id \notin DOMAIN nbi THEN nodes
    ELSE LET k == nbi[node_id]
             outs == OutputsOf(nodes[k])
         IN  IF ~(0 <= slot_index /\ slot_index < Len(outs)) THEN nodes
             ELSE LET links == outs[slot_index + 1].links
                  IN  IF links # None /\ link_id \in Range(links[1])
                      THEN [nodes EXCEPT ![k].outputs[slot_index + 1].links =
                               Some(RemoveFirst(links[1], link_id))]
                      ELSE nodes

\* ------------------------------------------------- the function's frame
\* The locals of one call as a record, so that the loops are operators on it:
\* wf (the workflow object wf refers to), nodes_by_id, link_map,
\* name_to_source, conflicts, rewired, skipped_gets and exc.
NoExc == None
Raise(F, type, line) == [F EXCEPT !.exc = Some([type |-> type, line |-> line])]

\* last-seen wins: a later SetNode of the name overwrites the binding
BindLastSeen(F, name, candidate, node_id) ==
    IF name \in DOMAIN F.name_to_source /\ F.name_to_source[name] # candidate
    THEN [F EXCEPT !.conflicts =
             Append(@, <<name, F.name_to_source[name], candidate, node_id>>),
                   !.name_to_source = Put(@, name, candidate)]
    ELSE [F EXCEPT !.name_to_source = Put(@, name, candidate)]

\* the first-seen rule of one SetNode: record the candidate, or report a
\* conflict with the binding the name already has
Bind(F, name, candidate, node_id) ==
    IF name \in DOMAIN F.name_to_source /\ F.name_to_source[name] # candidate
    THEN [F EXCEPT !.conflicts =
             Append(@, <<name, F.name_to_source[name], candidate, node_id>>)]
    ELSE [F EXCEPT !.name_to_source = Put(@, name, candidate)]

\* one iteration of the loop that builds name_to_source
SetIter(F, idx) ==
    LET n == F.wf.nodes[idx]
        name == NameOf(n)
    IN  IF TypeOf(n) # "SetNode" THEN F
        ELSE IF Falsy(name) \/ InputsOf(n) = <<>> THEN F
        ELSE LET link_id == InputsOf(n)[1].link
             IN  IF link_id = None THEN F
                 ELSE IF link_id[1] \notin DOMAIN F.link_map THEN F
                 ELSE LET link == F.wf.links[F.link_map[link_id[1]]]
                      IN  IF Len(link) # 6 THEN Raise(F, "ValueError", 131)
                          ELSE Bind(F, name[1], <<link[2], link[3], link[6]>>, n.id)

\* the rewrite with link[3] written in place of link[1]: the target node is
\* overwritten, the source node is left
RewriteLinkTarget(F, idx, out_slot_index, lid, name, src) ==
    IF lid \notin DOMAIN F.link_map THEN F
    ELSE LET li == F.link_map[lid]
             link == F.wf.links[li]
             n == F.wf.nodes[idx]
         IN  IF Len(link) < 6 THEN Raise(F, "IndexError", 159)
             ELSE [F EXCEPT
                     !.wf.links[li] = [link EXCEPT ![4] = src[1], ![3] = src[2], ![6] = src[3]],
                     !.wf.nodes = remove_output_link(
                                      add_output_link(@, F.nodes_by_id, src[1], src[2], lid),
                                      F.nodes_by_id, n.id, out_slot_index, lid),
                     !.rewired = Append(@, <<name, lid, n.id, src[1]>>)]

\* the body of the innermost loop for one link id of one output port
RewriteLink(F, idx, out_slot_index, lid, name, src) ==
    IF lid \notin DOMAIN F.link_map THEN F
    ELSE LET li == F.link_map[lid]
             link == F.wf.links[li]
             n == F.wf.nodes[idx]
         IN  IF Len(link) < 6
             THEN Raise(F, "IndexError",
                        IF Len(link) < 2 THEN 157 ELSE IF Len(link) < 3 THEN 158 ELSE 159)
             ELSE [F EXCEPT
                     !.wf.links[li] = [link EXCEPT ![2] = src[1], ![3] = src[2], ![6] = src[3]],
                     !.wf.nodes = remove_output_link(
                                      add_output_link(@, F.nodes_by_id, src[1], src[2], lid),
                                      F.nodes_by_id, n.id, out_slot_index, lid),
                     !.rewired = Append(@, <<name, lid, n.id, src[1]>>)]

RECURSIVE LinksLoop(_, _, _, _, _, _)
\* for lid in link_ids
LinksLoop(F, idx, out_slot_index, link_ids, name, src) ==
    IF link_ids = <<>> \/ F.exc # NoExc THEN F
    ELSE LinksLoop(RewriteLink(F, idx, out_slot_index, Head(link_ids), name, src),
                   idx, out_slot_index, Tail(link_ids), name, src)

RECURSIVE PortsLoop(_, _, _, _, _)
\* for out_slot_index, out in enumerate(outs): the port is read when the loop
\* reaches it, its link ids are copied before they are walked
PortsLoop(F, idx, out_slot_index, name, src) ==
    LET outs == OutputsOf(F.wf.nodes[idx])
    IN  IF out_slot_index >= Len(outs) \/ F.exc # NoExc THEN F
        ELSE PortsLoop(LinksLoop(F, idx, out_slot_index,
                                 LinkIds(outs[out_slot_index + 1]), name, src),
                       idx, out_slot_index + 1, name, src)

\* the second pass without the skipped_gets.append
GetIterUnrecorded(F, idx) ==
    LET n == F.wf.nodes[idx]
        name == NameOf(n)
    IN  IF TypeOf(n) # "GetNode" THEN F
        ELSE IF name = None \/ name[1] \notin DOMAIN F.name_to_source THEN F
             ELSE PortsLoop(F, idx, 0, name[1], F.name_to_source[name[1]])

\* one iteration of the loop that rewrites the links of the GetNodes
GetIter(F, idx) ==
    LET n == F.wf.nodes[idx]
        name == NameOf(n)
    IN  IF TypeOf(n) # "GetNode" THEN F
        ELSE IF name = None \/ name[1] \notin DOMAIN F.name_to_source
             THEN [F EXCEPT !.skipped_gets = Append(@, <<n.id, name>>)]
             ELSE PortsLoop(F, idx, 0, name[1], F.name_to_source[name[1]])

IsRouting(n) == TypeOf(n) \in {"SetNode", "GetNode"}

\* the filter with the test of to_id left out
DanglingSourceOnly(l, dropped_ids) == l[2] \in dropped_ids

\* the link filter of the pruning: does the link touch a dropped node
Dangling(l, dropped_ids) == l[2] \in dropped_ids \/ l[4] \in dropped_ids

\* if drop_setget: drop the Set/Get nodes and the links that touch them
Prune(F, drop) ==
    IF ~drop THEN F
    ELSE LET dropped_ids == {F.wf.nodes[k].id : k \in {j \in DOMAIN F.wf.nodes :
                                                       IsRouting(F.wf.nodes[j])}}
         IN  IF \E k \in DOMAIN F.wf.links : Len(F.wf.links[k]) # 6
             THEN Raise([F EXCEPT !.wf.nodes = SelectSeq(@, LAMBDA n : ~IsRouting(n))],
                        "ValueError", 177)
             ELSE [F EXCEPT
                     !.wf.nodes = SelectSeq(@, LAMBDA n : ~IsRouting(n)),
                     !.wf.links = SelectSeq(@, LAMBDA l : ~Dangling(l, dropped_ids))]

\* wf.setdefault('extra', {}).setdefault('__hardline_rewire', {})[...] = ...
Report(F) ==
    [F EXCEPT
       !.wf.keys = @ \cup {"extra"},
       !.wf.extra = [keys |-> (IF "extra" \in F.wf.keys THEN @.keys ELSE {})
                                \cup {"__hardline_rewire"},
                     report |-> Some([rewired_count |-> Len(F.rewired),
                                      skipped_gets |-> F.skipped_gets,
                                      conflicts |-> F.conflicts])]]

\* ------------------------------------------------------------ actions
Frame ==
    [wf |-> heap[wf], nodes_by_id |-> nodes_by_id, link_map |-> link_map,
     name_to_source |-> name_to_source, conflicts |-> conflicts,
     rewired |-> rewired, skipped_gets |-> skipped_gets, exc |-> exc]

\* write the frame back; where the call goes on, or that it has raised
Store(F, next_pc, next_cursor) ==
    /\ heap' = [heap EXCEPT ![wf] = F.wf]
    /\ name_to_source' = F.name_to_source
    /\ conflicts' = F.conflicts
    /\ rewired' = F.rewired
    /\ skipped_gets' = F.skipped_gets
    /\ exc' = F.exc
    /\ pc' = IF F.exc # NoExc THEN "raised" ELSE next_pc
    /\ cursor' = IF F.exc # NoExc THEN cursor ELSE next_cursor
    /\ UNCHANGED <<arg, drop_setget, wf, nodes_by_id, link_map>>

Init ==
    /\ arg \in Inputs
    /\ drop_setget \in BOOLEAN
    /\ heap = [caller |-> arg, copy |-> NoWorkflow]
    /\ wf = "caller"
    /\ nodes_by_id = EmptyDict
    /\ link_map = EmptyDict
    /\ name_to_source = EmptyDict
    /\ conflicts = <<>>
    /\ rewired = <<>>
    /\ skipped_gets = <<>>
    /\ cursor = 1
    /\ exc = NoExc
    /\ pc = "call"

\* the check for 'nodes' and 'links' and the two indexes, on the copy g; the
\* frame the loops start from
Enter(g) ==
    LET raised == IF ~({"nodes", "links"} \subseteq g.keys)
                     THEN Some([type |-> "ValueError", line |-> 88])
                  ELSE IF \E k \in DOMAIN g.nodes : "id" \notin g.nodes[k].keys
                     THEN Some([type |-> "KeyError", line |-> 90])
                  ELSE IF \E k \in DOMAIN g.links : Len(g.links[k]) = 0
                     THEN Some([type |-> "IndexError", line |-> 92])
                  ELSE NoExc
    IN  [wf |-> g,
         nodes_by_id |-> IF raised = NoExc THEN NodesById(g.nodes) ELSE EmptyDict,
         link_map |-> IF raised = NoExc THEN LinkMap(g.links) ELSE EmptyDict,
         name_to_source |-> EmptyDict, conflicts |-> <<>>,
         rewired |-> <<>>, skipped_gets |-> <<>>, exc |-> raised]

\* wf = deepcopy(workflow), then the check and the indexes
Begin ==
    /\ pc = "call"
    /\ LET c == deepcopy(heap, "caller")
           F == Enter(c.heap[c.ref])
       IN  /\ heap' = c.heap
           /\ wf' = c.ref
           /\ exc' = F.exc
           /\ pc' = IF F.exc # NoExc THEN "raised" ELSE "set_pass"
           /\ nodes_by_id' = F.nodes_by_id
           /\ link_map' = F.link_map
    /\ UNCHANGED <<arg, drop_setget, name_to_source, conflicts, rewired,
                   skipped_gets, cursor>>

\* for n in wf['nodes']: if n.get('type') == 'SetNode': ...
SetPass ==
    /\ pc = "set_pass"
    /\ LET last == Len(heap[wf].nodes)
       IN  IF cursor > last THEN Store(Frame, "get_pass", 1)
           ELSE IF cursor = last THEN Store(SetIter(Frame, cursor), "get_pass", 1)
           ELSE Store(SetIter(Frame, cursor), "set_pass", cursor + 1)

\* for n in wf['nodes']: if n.get('type') == 'GetNode': ...
GetPass ==
    /\ pc = "get_pass"
    /\ LET last == Len(heap[wf].nodes)
       IN  IF cursor > last THEN Store(Frame, "prune", 1)
           ELSE IF cursor = last THEN Store(GetIter(Frame, cursor), "prune", 1)
           ELSE Store(GetIter(Frame, cursor), "get_pass", cursor + 1)

\* if drop_setget: ...
Pruning ==
    /\ pc = "prune"
    /\ Store(Prune(Frame, drop_setget), "report", 1)

\* the summary under extra.__hardline_rewire, and return wf
Return ==
    /\ pc = "report"
    /\ Store(Report(Frame), "done", 1)

Next == Begin \/ SetPass \/ GetPass \/ Pruning \/ Return

Spec == Init /\ [][Next]_vars

\* ------------------------------------------- the call as one function
RECURSIVE SetLoop(_, _)
SetLoop(F, k) ==
    IF k > Len(F.wf.nodes) \/ F.exc # NoExc THEN F ELSE SetLoop(SetIter(F, k), k + 1)

RECURSIVE GetLoop(_, _)
GetLoop(F, k) ==
    IF k > Len(F.wf.nodes) \/ F.exc # NoExc THEN F ELSE GetLoop(GetIter(F, k), k + 1)

\* convert_setget_to_hardlines(workflow, drop_setget): the frame at the return,
\* or at the raise
Convert(workflow, drop) ==
    LET F0 == Enter(workflow)
        F1 == IF F0.exc # NoExc THEN F0 ELSE SetLoop(F0, 1)
        F2 == IF F1.exc # NoExc THEN F1 ELSE GetLoop(F1, 1)
        F3 == IF F2.exc # NoExc THEN F2 ELSE Prune(F2, drop)
    IN  IF F3.exc # NoExc THEN F3 ELSE Report(F3)

\* --------------------------------------------------- reading a result
Done == pc = "done"
\* the workflow the call returns
Out == heap[wf]

\* the node of workflow w with this id is a GetNode / the ids of its routing nodes
GetIndices(w) == {k \in DOMAIN w.nodes : TypeOf(w.nodes[k]) = "GetNode"}
RoutingIds(w) == {w.nodes[k].id : k \in {j \in DOMAIN w.nodes : IsRouting(w.nodes[j])}}
GetIds(w) == {w.nodes[k].id : k \in GetIndices(w)}

\* the link ids that port p (counted from 0) of node n lists
PortIds(n, p) == Range(LinkIds(OutputsOf(n)[p + 1]))
PortCount(n) == Len(OutputsOf(n))
\* every link id some output port of n lists
Attached(n) == UNION {PortIds(n, p) : p \in 0..(PortCount(n) - 1)}

\* the links of w that have this id
LinksWithId(w, lid) == {k \in DOMAIN w.links : w.links[k][1] = lid}
HasLink(w, lid) == LinksWithId(w, lid) # {}
LinkOf(w, lid) == w.links[CHOOSE k \in LinksWithId(w, lid) : TRUE]
Triple(l) == <<l[2], l[3], l[6]>>

\* A SetNode gives a binding when it has a name, a first input bound to a
\* link id, and that id is a link of the table.
Resolvable(w, k) ==
    LET n == w.nodes[k] IN
    /\ TypeOf(n) = "SetNode"
    /\ "widgets_values" \in n.keys /\ n.widgets_values # <<>> /\ n.widgets_values[1] # ""
    /\ "inputs" \in n.keys /\ n.inputs # <<>>
    /\ n.inputs[1].link # None
    /\ HasLink(w, n.inputs[1].link[1])
Captured(w, k) == Triple(LinkOf(w, w.nodes[k].inputs[1].link[1]))
\* the resolvable SetNodes of a name among the first `upto' nodes, in node order
Binders(w, name, upto) ==
    {k \in 1..upto : Resolvable(w, k) /\ w.nodes[k].widgets_values[1] = name}
Min(S) == CHOOSE k \in S : \A j \in S : k <= j
FirstSeen(w, name) == Captured(w, Min(Binders(w, name, Len(w.nodes))))

\* how many nodes the first pass has gone through
SetsDone == IF pc = "call" THEN 0
            ELSE IF pc = "set_pass" THEN cursor - 1 ELSE Len(arg.nodes)

\* the GetNode at index k of the input reads a name that has a binding
ResolvedGet(k) ==
    /\ k \in GetIndices(arg)
    /\ NameOf(arg.nodes[k]) # None
    /\ NameOf(arg.nodes[k])[1] \in DOMAIN name_to_source
UnresolvedGet(k) == k \in GetIndices(arg) /\ ~ResolvedGet(k)

\* number of times x occurs in sequence s
Count(s, x) == Cardinality({k \in DOMAIN s : s[k] = x})

\* the report the call attaches: extra.__hardline_rewire
Summary == Out.extra.report[1]

\* the link ids that the output ports of the resolved GetNodes list in the input
ResolvedAttached == UNION {Attached(arg.nodes[k]) : k \in {j \in DOMAIN arg.nodes : ResolvedGet(j)}}

\* ================================================================ claims

\* C1 (as claimed): after the call, every link that an output port of a
\* GetNode with a bound name lists has the source node, source slot and type
\* that the first SetNode of the name captured, and its source node is not a
\* GetNode; also when that SetNode captured its value from a GetNode.
C1_DirectSource ==
    Done =>
        \A k \in DOMAIN arg.nodes : ResolvedGet(k) =>
            \A lid \in Attached(arg.nodes[k]) : HasLink(Out, lid) =>
                /\ Triple(LinkOf(Out, lid)) = FirstSeen(arg, NameOf(arg.nodes[k])[1])
                /\ LinkOf(Out, lid)[2] \notin GetIds(arg)

\* C2 (as claimed): for both values of drop_setget, a GetNode whose name has
\* no binding keeps every link of its output ports with all six fields, keeps
\* its port link sets, and is reported exactly once in skipped_gets.
C2_AsClaimed ==
    Done =>
        \A k \in DOMAIN arg.nodes : UnresolvedGet(k) =>
            LET n == arg.nodes[k] IN
            /\ \A lid \in Attached(n) : HasLink(arg, lid) =>
                   HasLink(Out, lid) /\ LinkOf(Out, lid) = LinkOf(arg, lid)
            /\ \E j \in DOMAIN Out.nodes :
                   /\ Out.nodes[j].id = n.id
                   /\ PortCount(Out.nodes[j]) = PortCount(n)
                   /\ \A p \in 0..(PortCount(n) - 1) : PortIds(Out.nodes[j], p) = PortIds(n, p)
            /\ Count(Summary.skipped_gets, <<n.id, NameOf(n)>>) = 1

\* C2 (amended): a GetNode whose name has no binding is reported exactly once
\* in skipped_gets.  Without dropping, every link of its output ports that no
\* resolved GetNode lists keeps all six fields, and each of its ports keeps the
\* ids it listed and gains only links that the rewrite has re-sourced to that
\* port.  With dropping, the links it sources are removed from the output.
C2_UnresolvedGet ==
    Done =>
        \A k \in DOMAIN arg.nodes : UnresolvedGet(k) =>
            LET n == arg.nodes[k]
                mine == {lid \in Attached(n) \ ResolvedAttached : HasLink(arg, lid)}
            IN
            /\ Count(Summary.skipped_gets, <<n.id, NameOf(n)>>) = 1
            /\ ~drop_setget =>
                 /\ \A lid \in mine : HasLink(Out, lid) /\ LinkOf(Out, lid) = LinkOf(arg, lid)
                 /\ Out.nodes[k].id = n.id
                 /\ PortCount(Out.nodes[k]) = PortCount(n)
                 /\ \A p \in 0..(PortCount(n) - 1) :
                       /\ PortIds(n, p) \subseteq PortIds(Out.nodes[k], p)
                       /\ \A lid \in PortIds(Out.nodes[k], p) \ PortIds(n, p) :
                             /\ lid \in ResolvedAttached
                             /\ LinkOf(Out, lid)[2] = n.id /\ LinkOf(Out, lid)[3] = p
            /\ drop_setget =>
                 \A lid \in mine : LinkOf(arg, lid)[2] = n.id => ~HasLink(Out, lid)

\* C2 witness: a call without dropping has returned; one GetNode was resolved
\* and rewired, another was not and still sources its links.
C2_Witness ==
    /\ Done /\ ~drop_setget /\ rewired # <<>>
    /\ \E k \in DOMAIN arg.nodes :
          /\ UnresolvedGet(k)
          /\ \E lid \in Attached(arg.nodes[k]) :
                HasLink(Out, lid) /\ LinkOf(Out, lid)[2] = arg.nodes[k].id

\* C3: with drop_setget, no SetNode or GetNode is among the returned nodes and
\* no returned link has a removed routing node as its source or its target.
C3_PruningClosure ==
    Done /\ drop_setget =>
        /\ \A j \in DOMAIN Out.nodes : ~IsRouting(Out.nodes[j])
        /\ \A k \in DOMAIN Out.links :
              Out.links[k][2] \notin RoutingIds(arg) /\ Out.links[k][4] \notin RoutingIds(arg)

\* C3 witness: a dropping call has returned; it rewired links, removed some
\* links and kept others.
C3_Witness ==
    /\ Done /\ drop_setget /\ rewired # <<>>
    /\ Len(Out.links) < Len(arg.links) /\ Out.links # <<>>
    /\ Len(Out.nodes) < Len(arg.nodes)

RECURSIVE ConflictsUpTo(_, _)
\* the conflicts the first `upto' nodes give: one entry for each resolvable
\* SetNode that is not the first of its name and captured another triple
ConflictsUpTo(w, upto) ==
    IF upto = 0 THEN <<>>
    ELSE LET before == ConflictsUpTo(w, upto - 1)
             earlier == IF Resolvable(w, upto)
                        THEN Binders(w, w.nodes[upto].widgets_values[1], upto - 1)
                        ELSE {}
         IN  IF earlier # {} /\ Captured(w, upto) # Captured(w, Min(earlier))
             THEN Append(before, <<w.nodes[upto].widgets_values[1], Captured(w, Min(earlier)),
                                   Captured(w, upto), w.nodes[upto].id>>)
             ELSE before

\* the node the second pass has just gone through, 0 when none
GetJustDone == IF pc = "get_pass" THEN cursor - 1
               ELSE IF pc = "prune" THEN Len(arg.nodes) ELSE 0

\* C4: at every point of the first pass the index holds, for each name, the
\* triple of the first resolvable SetNode of that name seen so far; conflicts
\* holds exactly one entry for each later SetNode of the name with another
\* triple and none for one with the same triple; and when the second pass has
\* gone through a GetNode of a bound name, every link of its ports has the
\* first-seen triple and the trace names the first-seen source node.
C4_FirstSeenWins ==
    pc \in {"set_pass", "get_pass", "prune", "report", "done"} =>
        /\ DOMAIN name_to_source =
              {arg.nodes[k].widgets_values[1] :
                   k \in {j \in 1..SetsDone : Resolvable(arg, j)}}
        /\ \A name \in DOMAIN name_to_source :
              name_to_source[name] = Captured(arg, Min(Binders(arg, name, SetsDone)))
        /\ conflicts = ConflictsUpTo(arg, SetsDone)
        /\ \A e \in Range(rewired) : e[4] = name_to_source[e[1]][1]
        /\ LET k == GetJustDone IN
           (k >= 1 /\ ResolvedGet(k)) =>
               LET name == NameOf(arg.nodes[k])[1]
                   first == FirstSeen(arg, name)
                   now == heap[wf]
               IN  \A lid \in Attached(arg.nodes[k]) : HasLink(arg, lid) =>
                       /\ Triple(LinkOf(now, lid)) = first
                       /\ <<name, lid, arg.nodes[k].id, first[1]>> \in Range(rewired)

\* C4 witness: two SetNodes of one name captured different sources, the second
\* is reported as a conflict, and a GetNode of the name has been rewired.
C4_Witness ==
    /\ Done /\ conflicts # <<>>
    /\ \E e \in Range(rewired) : e[1] = conflicts[1][1]

\* C5: the workflow object of the caller holds the value that was passed, at
\* every point of the call, whether it returns or raises.
C5_CallerUntouched == heap["caller"] = arg

\* C5 witness: the call has returned a workflow with rewired links.
C5_Witness == Done /\ rewired # <<>> /\ Out.links # arg.links

\* C6 (as claimed): the call raises exactly when the input has no 'nodes' or
\* no 'links'.
C6_OnlyMalformedGraphFails ==
    /\ pc = "raised" => ~({"nodes", "links"} \subseteq arg.keys)
    /\ ~({"nodes", "links"} \subseteq arg.keys) => pc \in {"call", "raised"}

\* C7: every returned link has the id, target node and target slot of an input
\* link; without dropping the returned link ids are the input's; and a link
\* that no output port of a resolved GetNode lists keeps all six fields.
C7_LinkFrame ==
    Done =>
        LET resolved == ResolvedAttached IN
        /\ Len(Out.links) <= Len(arg.links)
        /\ \A k \in DOMAIN Out.links :
              LET l == Out.links[k]
                  was == LinkOf(arg, l[1])
              IN  /\ HasLink(arg, l[1])
                  /\ l[4] = was[4] /\ l[5] = was[5]
                  /\ l[1] \notin resolved => l = was
        /\ ~drop_setget =>
              /\ Len(Out.links) = Len(arg.links)
              /\ \A k \in DOMAIN arg.links : Out.links[k][1] = arg.links[k][1]

\* C7 witness: the call has returned; one link got a new source, another link
\* is as it was.
C7_Witness ==
    /\ Done
    /\ \E k \in DOMAIN Out.links : Out.links[k] # LinkOf(arg, Out.links[k][1])
    /\ \E k \in DOMAIN Out.links : Out.links[k][1] \notin ResolvedAttached

\* the one-to-one maps of a set of node indices onto itself
Bijections(S) == {f \in [S -> S] : \A a, b \in S : f[a] = f[b] => a = b}
\* the workflow with the nodes at the indices of f put in the order f gives
Reorder(w, f) ==
    [w EXCEPT !.nodes =
        SeqOfFn([k \in DOMAIN w.nodes |-> IF k \in DOMAIN f THEN w.nodes[f[k]] ELSE w.nodes[k]],
                1, Len(w.nodes))]
\* the nodes of the two workflows list the same link ids, port by port
SamePorts(w1, w2) ==
    \A k1 \in DOMAIN w1.nodes : \E k2 \in DOMAIN w2.nodes :
        /\ w1.nodes[k1].id = w2.nodes[k2].id
        /\ PortCount(w1.nodes[k1]) = PortCount(w2.nodes[k2])
        /\ \A p \in 0..(PortCount(w1.nodes[k1]) - 1) :
              PortIds(w1.nodes[k1], p) = PortIds(w2.nodes[k2], p)

\* C8 (as claimed): with the GetNodes put in any other order, the call gives
\* the same link table, the same port link sets, the same rewired_count, the
\* same set of skipped_gets and the same conflicts.
C8_OrderIndependence ==
    Done =>
        \A f \in Bijections(GetIndices(arg)) :
            LET R == Convert(Reorder(arg, f), drop_setget) IN
            /\ R.exc = NoExc
            /\ R.wf.links = Out.links
            /\ SamePorts(R.wf, Out)
            /\ Len(R.rewired) = Summary.rewired_count
            /\ Range(R.skipped_gets) = Range(Summary.skipped_gets)
            /\ R.conflicts = Summary.conflicts

\* C9 (as claimed): with drop_setget, every link the second pass re-sourced
\* whose target is an ordinary node is returned, with the resolved source and
\* type and its own id and target; and every link that is not returned was not
\* re-sourced and touches a routing node.
C9_RewiredSurvivePruning ==
    Done /\ drop_setget =>
        /\ \A e \in Range(rewired) :
              LinkOf(arg, e[2])[4] \notin RoutingIds(arg) =>
                  /\ HasLink(Out, e[2])
                  /\ Triple(LinkOf(Out, e[2])) = name_to_source[e[1]]
                  /\ LinkOf(Out, e[2])[4] = LinkOf(arg, e[2])[4]
                  /\ LinkOf(Out, e[2])[5] = LinkOf(arg, e[2])[5]
        /\ \A k \in DOMAIN arg.links :
              ~HasLink(Out, arg.links[k][1]) =>
                  /\ \A e \in Range(rewired) : e[2] # arg.links[k][1]
                  /\ arg.links[k][2] \in RoutingIds(arg) \/ arg.links[k][4] \in RoutingIds(arg)

\* every link is listed in the output port it names as its source, and every
\* id an output port lists is a link of the table with that port as source
Consistent(w) ==
    /\ \A k \in DOMAIN w.links :
          LET l == w.links[k] IN
          /\ Len(l) = 6
          /\ \E j \in DOMAIN w.nodes :
                /\ "id" \in w.nodes[j].keys /\ w.nodes[j].id = l[2]
                /\ 0 <= l[3] /\ l[3] < PortCount(w.nodes[j])
                /\ l[1] \in PortIds(w.nodes[j], l[3])
    /\ \A j \in DOMAIN w.nodes : \A p \in 0..(PortCount(w.nodes[j]) - 1) :
          \A lid \in PortIds(w.nodes[j], p) :
              /\ HasLink(w, lid)
              /\ LinkOf(w, lid)[2] = w.nodes[j].id /\ LinkOf(w, lid)[3] = p

\* C10 (as claimed): without dropping, a workflow whose ports and link table
\* agree is returned with ports and link table that agree; each re-sourced
\* link id is listed exactly once in the port that is now its source, and is
\* not listed by the GetNode it was read from.
C10_PortsConsistent ==
    (Done /\ ~drop_setget /\ Consistent(arg)) =>
        /\ Consistent(Out)
        /\ \A e \in Range(rewired) :
              /\ \A j \in DOMAIN Out.nodes :
                    (Out.nodes[j].id = LinkOf(Out, e[2])[2]
                     /\ LinkOf(Out, e[2])[3] < PortCount(Out.nodes[j])) =>
                        Count(LinkIds(OutputsOf(Out.nodes[j])[LinkOf(Out, e[2])[3] + 1]), e[2]) = 1
              /\ \A j \in DOMAIN Out.nodes :
                    Out.nodes[j].id = e[3] => e[2] \notin Attached(Out.nodes[j])

====
